---- MODULE Spec2Model ----
(***************************************************************************)
(* Model of patchy: the block delta engine of src/src/patchy.rs with the   *)
(* rolling hash of src/src/hash.rs, and the command line driver of         *)
(* src/src/main.rs.                                                        *)
(*                                                                         *)
(* Byte slices are sequences of integers in 0..255.  A slice s[b..e] of    *)
(* the source is Slice(s, b, e); offsets are 0-based as in the source.     *)
(* An Option is a sequence of length 0 (None) or 1 (Some).                 *)
(* A HashMap is a function whose domain is its key set.                    *)
(***************************************************************************)
EXTENDS Integers, Sequences, FiniteSets, TLC

\* ---- bounds of the model ----
MaxLen == 3
MaxBlock == 3

\* byte values of the inputs: two letters and a byte whose +31 wraps at 8 bits
Bytes == {97, 98, 255}

\* byte values of the inputs that are one byte longer than MaxLen
LongBytes == {97, 98}

\* the inputs: all byte sequences over Bytes up to MaxLen bytes, and the
\* sequences of MaxLen + 1 bytes over LongBytes
Inputs ==
    UNION {[1..n -> Bytes] : n \in 0..MaxLen} \cup [1..(MaxLen + 1) -> LongBytes]

\* the literal inputs <<a, b>> of the tests of test.rs that use other bytes
Scenarios ==
    { << <<97, 98, 99, 100>>, <<99, 100, 97, 98>> >>,
      << <<97, 98, 99, 100>>, <<97, 98, 99, 100>> >>,
      << <<97, 98, 99, 100>>, <<97, 98, 99>> >>,
      << <<97, 98, 99>>, <<97, 98, 99, 100>> >>,
      << <<97, 98>>, <<97, 98, 99>> >>,
      << <<97, 98, 99>>, <<97, 98>> >> }

InputPairs == (Inputs \X Inputs) \cup Scenarios

VARIABLES
    pc,                    \* position in the pipeline blocks/diff/build/apply
    base_data,             \* BASE bytes (compute_diff `input`, apply_patch `base_data`)
    other_data,            \* OTHER bytes
    block_size,            \* B
    other_blocks,          \* compute_blocks(OTHER, B)
    weak_hash_set,         \* compute_diff: weak_hash_set
    other_block_hash_map,  \* compute_diff: other_block_hash_map
    base_block_hash_map,   \* compute_diff: base_block_hash_map
    rolling_hash,          \* compute_diff: rolling_hash
    window_begin,          \* compute_diff: window_begin
    window_end,            \* compute_diff: window_end
    accepted,              \* history: the windows find_base_block accepted, in order
    patch_commands,        \* result of compute_diff
    patch,                 \* result of build_patch (or the deserialized patch)
    result,                \* result of apply_patch
    step,                  \* position of the driver: "test", or the line main.rs is at
    args,                  \* the parsed command line (clap::ArgMatches)
    fs,                    \* the files named on the command line, as the run finds them
    container,             \* patch_file: patch_with_header
    outcome,               \* "running", the Result of dispatch_command, or "panic"
    exit_code,             \* the exit code of the process, -1 while it runs
    written,               \* Option: the bytes written to OUTPUT / PATCH
    log,                   \* history: the checks passed and the steps done, in order
    rh,                    \* a RollingHash that bytes are added to and removed from
    rh_start,              \* history: rh before the first add of the sequence
    rh_input,              \* the bytes x1..xN of the sequence
    rh_added,              \* how many of them add was called on
    rh_removed             \* how many of them sub was called on

coreVars == <<pc, base_data, other_data, block_size, other_blocks, weak_hash_set,
              other_block_hash_map, base_block_hash_map, rolling_hash,
              window_begin, window_end, accepted, patch_commands, patch, result>>

cliVars == <<step, args, fs, container, outcome, exit_code, written, log>>

hashVars == <<rh, rh_start, rh_input, rh_added, rh_removed>>

vars == <<coreVars, cliVars, hashVars>>

\* ---- helpers --------------------------------------------------------------

\* std::cmp::min
min(a, b) == IF a < b THEN a ELSE b

\* the slice s[b..e] (0-based, e exclusive)
Slice(s, b, e) == SubSeq(s, b + 1, e)

\* ---- hash.rs --------------------------------------------------------------

\* RollingHash::new
RollingHash_new == [a |-> 0, b |-> 0, count |-> 0]

\* RollingHash::count
RollingHash_count(h) == h.count

\* an add that widens x before adding 31, so that x + 31 does not wrap at 8 bits
RollingHash_add_wide(h, x) ==
    LET a2 == (h.a + (x + 31)) % 65536
    IN  [a |-> a2, b |-> (h.b + a2) % 65536, count |-> h.count + 1]

\* RollingHash::add: wrapping at 8 bits for x+31, at 16 bits for a and b
RollingHash_add(h, x) ==
    LET a2 == (h.a + ((x + 31) % 256)) % 65536
    IN  [a |-> a2, b |-> (h.b + a2) % 65536, count |-> h.count + 1]

\* a sub that widens x before adding 31, so that x + 31 does not wrap at 8 bits
RollingHash_sub_wide(h, x) ==
    LET x2 == x + 31
    IN  [a |-> (h.a - x2) % 65536,
         b |-> (h.b - ((h.count * x2) % 65536)) % 65536,
         count |-> h.count - 1]

\* RollingHash::sub as in the draft rolling_hash.rs: count is not decremented
RollingHash_sub_noCount(h, x) ==
    LET x2 == (x + 31) % 256
    IN  [a |-> (h.a - x2) % 65536,
         b |-> (h.b - ((h.count * x2) % 65536)) % 65536,
         count |-> h.count]

\* RollingHash::sub
RollingHash_sub(h, x) ==
    LET x2 == (x + 31) % 256
    IN  [a |-> (h.a - x2) % 65536,
         b |-> (h.b - ((h.count * x2) % 65536)) % 65536,
         count |-> h.count - 1]

\* RollingHash::get: the u32 (a | b << 16), written as its <<low, high>> 16-bit
\* halves because the value does not fit the model checker's integers
RollingHash_get(h) == <<h.a, h.b>>

\* RollingHash::update
RECURSIVE RollingHash_update(_, _)
RollingHash_update(h, input) ==
    IF input = <<>> THEN h
    ELSE RollingHash_update(RollingHash_add(h, Head(input)), Tail(input))

\* compute_hash_weak
compute_hash_weak(input) == RollingHash_get(RollingHash_update(RollingHash_new, input))

\* compute_hash_strong: the 128-bit digest, treated as collision-free: the
\* digest of a slice is represented by the slice
compute_hash_strong(input) == input

\* ---- patchy.rs: compute_blocks ---------------------------------------------

\* div_up rounding up also when the division is exact
div_up_plusOne(num, den) == (num \div den) + 1

\* div_up
div_up(num, den) == (num + den - 1) \div den

compute_blocks(input, B) ==
    [i \in 1..div_up(Len(input), B) |->
        LET block_begin == (i - 1) * B
            block_end   == min(i * B, Len(input))
            block_slice == Slice(input, block_begin, block_end)
        IN  [offset      |-> block_begin,
             size        |-> block_end - block_begin,
             hash_weak   |-> compute_hash_weak(block_slice),
             hash_strong |-> compute_hash_strong(block_slice)]]

\* ---- patchy.rs: compute_diff -----------------------------------------------

\* HashMap::insert: the new value replaces the value of an existing key
HashMap_insert(m, k, v) ==
    [x \in (DOMAIN m) \cup {k} |-> IF x = k THEN v ELSE m[x]]

\* the loop `for block in other_blocks` filling other_block_hash_map
RECURSIVE InsertOtherBlocks(_, _, _)
InsertOtherBlocks(m, blocks, i) ==
    IF i > Len(blocks) THEN m
    ELSE InsertOtherBlocks(HashMap_insert(m, blocks[i].hash_strong, blocks[i].offset),
                           blocks, i + 1)

\* the closure find_base_block; "panic" when the slice is out of bounds
find_base_block(input, wset, omap, block_begin, block_end, block_hash_weak) ==
    IF block_hash_weak \in wset
    THEN IF block_begin > block_end \/ block_end > Len(input)
         THEN [panic |-> TRUE, found |-> <<>>]
         ELSE LET block_slice       == Slice(input, block_begin, block_end)
                  block_hash_strong == compute_hash_strong(block_slice)
              IN  IF block_hash_strong \in DOMAIN omap
                  THEN [panic |-> FALSE,
                        found |-> <<[offset      |-> block_begin,
                                     size        |-> block_end - block_begin,
                                     hash_weak   |-> block_hash_weak,
                                     hash_strong |-> block_hash_strong]>>]
                  ELSE [panic |-> FALSE, found |-> <<>>]
    ELSE [panic |-> FALSE, found |-> <<>>]

\* the loop `while rolling_hash.count() < this_window_size`
RECURSIVE GrowWindow(_, _, _, _)
GrowWindow(input, h, wend, window_size) ==
    IF RollingHash_count(h) < window_size
    THEN IF wend >= Len(input)
         THEN [panic |-> TRUE, h |-> h, wend |-> wend]
         ELSE GrowWindow(input, RollingHash_add(h, input[wend + 1]), wend + 1,
                         window_size)
    ELSE [panic |-> FALSE, h |-> h, wend |-> wend]

\* a window that is never clamped to the tail of BASE
this_window_size_noClamp(remaining_len, B) == B

\* `let this_window_size: usize = min(remaining_len, block_size)`
this_window_size(remaining_len, B) == min(remaining_len, B)

\* one iteration of the scan loop, up to the match on find_base_block
ScanIter ==
    LET remaining_len == Len(base_data) - window_begin
    IN  IF remaining_len = 0
        THEN [kind |-> "break"]
        ELSE LET g == GrowWindow(base_data, rolling_hash, window_end,
                                 this_window_size(remaining_len, block_size))
             IN  IF g.panic
                 THEN [kind |-> "panic"]
                 ELSE LET f == find_base_block(base_data, weak_hash_set,
                                               other_block_hash_map, window_begin,
                                               g.wend, RollingHash_get(g.h))
                      IN  IF f.panic THEN [kind |-> "panic"]
                          ELSE IF f.found # <<>>
                          THEN [kind |-> "match", h |-> g.h, wend |-> g.wend,
                                base_block |-> f.found[1]]
                          ELSE [kind |-> "slide", h |-> g.h, wend |-> g.wend]

\* the loop `for other_block in other_blocks` building the two command lists
EmitCmds(blocks, bmap) ==
    LET inBase(blk)  == blk.hash_strong \in DOMAIN bmap
        notBase(blk) == blk.hash_strong \notin DOMAIN bmap
        fromBase  == SelectSeq(blocks, inBase)
        fromOther == SelectSeq(blocks, notBase)
    IN  [base  |-> [i \in 1..Len(fromBase) |->
                       [source |-> bmap[fromBase[i].hash_strong],
                        target |-> fromBase[i].offset,
                        size   |-> fromBase[i].size]],
         other |-> [i \in 1..Len(fromOther) |->
                       [source |-> fromOther[i].offset,
                        target |-> fromOther[i].offset,
                        size   |-> fromOther[i].size]]]

\* compute_copy_size
RECURSIVE compute_copy_size(_)
compute_copy_size(cmds) ==
    IF cmds = <<>> THEN 0 ELSE Head(cmds).size + compute_copy_size(Tail(cmds))

\* ---- patchy.rs: optimize_copy_cmds, build_patch, apply_patch ---------------

\* cmds.sort_by_key(|v| v.target): a stable sort
RECURSIVE InsertByTarget(_, _)
InsertByTarget(sorted, cmd) ==
    IF sorted = <<>> THEN <<cmd>>
    ELSE IF sorted[Len(sorted)].target <= cmd.target
         THEN Append(sorted, cmd)
         ELSE Append(InsertByTarget(SubSeq(sorted, 1, Len(sorted) - 1), cmd),
                     sorted[Len(sorted)])

RECURSIVE SortByTarget(_)
SortByTarget(cmds) ==
    IF cmds = <<>> THEN <<>>
    ELSE InsertByTarget(SortByTarget(SubSeq(cmds, 1, Len(cmds) - 1)), cmds[Len(cmds)])

\* a merge that checks the target ranges only, not the source ranges
RECURSIVE MergeAdjacent_targetOnly(_, _)
MergeAdjacent_targetOnly(cmds, i) ==
    IF i > Len(cmds) THEN cmds
    ELSE IF i > 1
            /\ cmds[i-1].target + cmds[i-1].size = cmds[i].target
         THEN MergeAdjacent_targetOnly(
                 [cmds EXCEPT ![i]   = [source |-> cmds[i-1].source,
                                        target |-> cmds[i-1].target,
                                        size   |-> cmds[i].size + cmds[i-1].size],
                              ![i-1] = [source |-> cmds[i-1].source,
                                        target |-> cmds[i-1].target,
                                        size   |-> 0]],
                 i + 1)
         ELSE MergeAdjacent_targetOnly(cmds, i + 1)

\* a merge that leaves the folded command in the list (no tombstone)
RECURSIVE MergeAdjacent_noTombstone(_, _)
MergeAdjacent_noTombstone(cmds, i) ==
    IF i > Len(cmds) THEN cmds
    ELSE IF i > 1
            /\ cmds[i-1].source + cmds[i-1].size = cmds[i].source
            /\ cmds[i-1].target + cmds[i-1].size = cmds[i].target
         THEN MergeAdjacent_noTombstone(
                 [cmds EXCEPT ![i]   = [source |-> cmds[i-1].source,
                                        target |-> cmds[i-1].target,
                                        size   |-> cmds[i].size + cmds[i-1].size]],
                 i + 1)
         ELSE MergeAdjacent_noTombstone(cmds, i + 1)

\* the merge loop: prev is cmds[i-1], curr is cmds[i]
RECURSIVE MergeAdjacent(_, _)
MergeAdjacent(cmds, i) ==
    IF i > Len(cmds) THEN cmds
    ELSE IF i > 1
            /\ cmds[i-1].source + cmds[i-1].size = cmds[i].source
            /\ cmds[i-1].target + cmds[i-1].size = cmds[i].target
         THEN MergeAdjacent(
                 [cmds EXCEPT ![i]   = [source |-> cmds[i-1].source,
                                        target |-> cmds[i-1].target,
                                        size   |-> cmds[i].size + cmds[i-1].size],
                              ![i-1] = [source |-> cmds[i-1].source,
                                        target |-> cmds[i-1].target,
                                        size   |-> 0]],
                 i + 1)
         ELSE MergeAdjacent(cmds, i + 1)

optimize_copy_cmds(cmds) ==
    LET live(cmd) == cmd.size # 0
    IN  SelectSeq(MergeAdjacent(SortByTarget(cmds), 1), live)

\* a payload loop that keeps the OTHER offset as the source of the command
RECURSIVE BuildPayload_noRelocate(_, _, _, _, _)
BuildPayload_noRelocate(data, cmds, i, patch_data, other_cmds) ==
    IF i > Len(cmds)
    THEN [panic |-> FALSE, patch_data |-> patch_data, other_cmds |-> other_cmds]
    ELSE LET cmd         == cmds[i]
             slice_begin == cmd.source
             slice_end   == cmd.source + cmd.size
         IN  IF slice_end > Len(data)
             THEN [panic |-> TRUE, patch_data |-> patch_data, other_cmds |-> other_cmds]
             ELSE BuildPayload_noRelocate(data, cmds, i + 1,
                               patch_data \o Slice(data, slice_begin, slice_end),
                               Append(other_cmds, [source |-> cmd.source,
                                                   target |-> cmd.target,
                                                   size   |-> cmd.size]))

\* the loop of build_patch over patch_commands.other
RECURSIVE BuildPayload(_, _, _, _, _)
BuildPayload(data, cmds, i, patch_data, other_cmds) ==
    IF i > Len(cmds)
    THEN [panic |-> FALSE, patch_data |-> patch_data, other_cmds |-> other_cmds]
    ELSE LET cmd         == cmds[i]
             slice_begin == cmd.source
             slice_end   == cmd.source + cmd.size
         IN  IF slice_end > Len(data)
             THEN [panic |-> TRUE, patch_data |-> patch_data, other_cmds |-> other_cmds]
             ELSE BuildPayload(data, cmds, i + 1,
                               patch_data \o Slice(data, slice_begin, slice_end),
                               Append(other_cmds, [source |-> Len(patch_data),
                                                   target |-> cmd.target,
                                                   size   |-> cmd.size]))

build_patch(data, cmds) ==
    LET p == BuildPayload(data, cmds.other, 1, <<>>, <<>>)
    IN  [panic |-> p.panic,
         patch |-> [data       |-> p.patch_data,
                    base       |-> optimize_copy_cmds(cmds.base),
                    other      |-> optimize_copy_cmds(p.other_cmds),
                    other_size |-> Len(data)]]

\* result[target..target+size].copy_from_slice(source[source..source+size])
CopyFromSlice(res, src, cmd) ==
    [j \in 1..Len(res) |->
        IF j > cmd.target /\ j <= cmd.target + cmd.size
        THEN src[cmd.source + (j - cmd.target)]
        ELSE res[j]]

\* one of the two loops of apply_patch
RECURSIVE ApplyCmds(_, _, _, _)
ApplyCmds(res, src, cmds, i) ==
    IF i > Len(cmds) THEN [panic |-> FALSE, result |-> res]
    ELSE IF cmds[i].source + cmds[i].size > Len(src)
            \/ cmds[i].target + cmds[i].size > Len(res)
         THEN [panic |-> TRUE, result |-> res]
         ELSE ApplyCmds(CopyFromSlice(res, src, cmds[i]), src, cmds, i + 1)

apply_patch(data, p) ==
    LET zeros == [j \in 1..p.other_size |-> 0]
        r1    == ApplyCmds(zeros, data, p.base, 1)
    IN  IF r1.panic THEN r1 ELSE ApplyCmds(r1.result, p.data, p.other, 1)

\* ---- the pipeline as a state machine --------------------------------------

\* ---- main.rs ---------------------------------------------------------------

BLOCK_SIZE_BOUNDS_LOG2 == <<6, 24>>
DEFAULT_BLOCK_SIZE_LOG2 == 11
COMPRESSION_LEVEL_BOUNDS == <<1, 22>>
DEFAULT_COMPRESSION_LEVEL == 15
PATCH_FILE_ID == "!patchy!"
PATCH_FILE_VERSION == 1

\* std::cmp::max
max(a, b) == IF a > b THEN a ELSE b

\* clamp_parameter
clamp_parameter(v, bounds) == min(max(bounds[1], v), bounds[2])

\* str::parse::<i32>: a flag value is [int |-> it is an integer, value |-> which]
parse_i32(str) == [ok |-> str.int, value |-> str.value]

\* 1 << n
RECURSIVE shl1(_)
shl1(n) == IF n = 0 THEN 1 ELSE 2 * shl1(n - 1)

\* File::open: a file is [ok |-> it can be opened, bytes |-> its content]
Unreadable == [ok |-> FALSE, bytes |-> <<>>]
Readable(bytes) == [ok |-> TRUE, bytes |-> bytes]

\* File::open(..)? followed by MmapOptions::new().map(&file)?: the map of a
\* file of length zero fails
mmap(file) == [ok |-> file.ok /\ file.bytes # <<>>, bytes |-> file.bytes]

\* the content of a patch file that is not empty:
\* [fmt |-> "raw" | "zstd" | "bincode", body |-> ...]
Raw == [fmt |-> "raw", body |-> <<>>]

\* compress: zstd::stream::encode_all
compress(data, level) == [fmt |-> "zstd", body |-> data]

\* decompress: zstd::stream::decode_all fails on bytes that are no zstd stream
decompress(data) ==
    IF data.fmt = "zstd" THEN [ok |-> TRUE, value |-> data.body]
    ELSE [ok |-> FALSE, value |-> Raw]

\* bincode::serialize of a PatchWithHeader
serialize(patch_with_header) == [fmt |-> "bincode", body |-> patch_with_header]

\* bincode::deserialize fails on bytes that encode no PatchWithHeader
deserialize(data) == [ok |-> data.fmt = "bincode", value |-> data.body]

\* PatchCommands::is_synchronized is called by diff_files but its body is not
\* in the sources: the values it may return
is_synchronized(cmds) == BOOLEAN

UnreadablePatch == [ok |-> FALSE, bytes |-> Raw]
NoArgs == [cmd |-> "none", block |-> <<>>, level |-> <<>>, out |-> FALSE,
           compression_level |-> 0]
NoFiles == [base |-> Unreadable, other |-> Unreadable, patch |-> UnreadablePatch]
NoContainer == [id |-> "", version |-> 0, base_hash |-> <<>>, other_hash |-> <<>>,
                patch |-> [data |-> <<>>, base |-> <<>>, other |-> <<>>, other_size |-> 0]]

\* no RollingHash of its own is driven
HashIdle ==
    /\ rh = RollingHash_new
    /\ rh_start = RollingHash_new
    /\ rh_input = <<>>
    /\ rh_added = 0
    /\ rh_removed = 0

NoCommands == [base |-> <<>>, other |-> <<>>]
NoPatch == [data |-> <<>>, base |-> <<>>, other |-> <<>>, other_size |-> 0]

Init ==
    /\ \E ab \in InputPairs : base_data = ab[1] /\ other_data = ab[2]
    /\ block_size \in 1..MaxBlock
    /\ pc = "blocks"
    /\ other_blocks = <<>>
    /\ weak_hash_set = {}
    /\ other_block_hash_map = <<>>
    /\ base_block_hash_map = <<>>
    /\ rolling_hash = RollingHash_new
    /\ window_begin = 0
    /\ window_end = 0
    /\ accepted = <<>>
    /\ patch_commands = NoCommands
    /\ patch = NoPatch
    /\ result = <<>>
    /\ step = "test"
    /\ args = NoArgs
    /\ fs = NoFiles
    /\ container = NoContainer
    /\ outcome = "running"
    /\ exit_code = -1
    /\ written = <<>>
    /\ log = <<>>
    /\ HashIdle

\* compute_blocks(&b, block_size)
ComputeBlocks ==
    /\ UNCHANGED hashVars
    /\ pc = "blocks"
    /\ other_blocks' = compute_blocks(other_data, block_size)
    /\ pc' = "setup"
    /\ UNCHANGED cliVars
    /\ UNCHANGED <<base_data, other_data, block_size, weak_hash_set,
                   other_block_hash_map, base_block_hash_map, rolling_hash,
                   window_begin, window_end, accepted, patch_commands, patch, result>>

\* compute_diff, lines 75-101: the weak set, the two maps, the empty window
DiffSetup ==
    /\ UNCHANGED hashVars
    /\ pc = "setup"
    /\ weak_hash_set' = {other_blocks[i].hash_weak : i \in 1..Len(other_blocks)}
    /\ other_block_hash_map' = InsertOtherBlocks(<<>>, other_blocks, 1)
    /\ base_block_hash_map' = <<>>
    /\ rolling_hash' = RollingHash_new
    /\ window_begin' = 0
    /\ window_end' = 0
    /\ pc' = "scan"
    /\ UNCHANGED cliVars
    /\ UNCHANGED <<base_data, other_data, block_size, other_blocks, accepted,
                   patch_commands, patch, result>>

\* compute_diff, lines 103-106: the scan ends
ScanBreak ==
    /\ UNCHANGED hashVars
    /\ pc = "scan"
    /\ ScanIter.kind = "break"
    /\ pc' = "emit"
    /\ UNCHANGED cliVars
    /\ UNCHANGED <<base_data, other_data, block_size, other_blocks, weak_hash_set,
                   other_block_hash_map, base_block_hash_map, rolling_hash,
                   window_begin, window_end, accepted, patch_commands, patch, result>>

\* a jump that forgets to reset the rolling hash
ScanMatch_noReset ==
    /\ UNCHANGED hashVars
    /\ pc = "scan"
    /\ ScanIter.kind = "match"
    /\ LET it == ScanIter
       IN  /\ window_begin' = it.wend
           /\ window_end' = it.wend
           /\ rolling_hash' = it.h
           /\ base_block_hash_map' = HashMap_insert(base_block_hash_map,
                                                    it.base_block.hash_strong,
                                                    it.base_block.offset)
           /\ accepted' = Append(accepted, it.base_block)
    /\ UNCHANGED cliVars
    /\ UNCHANGED <<pc, base_data, other_data, block_size, other_blocks, weak_hash_set,
                   other_block_hash_map, patch_commands, patch, result>>

\* compute_diff, lines 107-118: the window is accepted, the scan jumps
ScanMatch ==
    /\ UNCHANGED hashVars
    /\ pc = "scan"
    /\ ScanIter.kind = "match"
    /\ LET it == ScanIter
       IN  /\ window_begin' = it.wend
           /\ window_end' = it.wend
           /\ rolling_hash' = RollingHash_new
           /\ base_block_hash_map' = HashMap_insert(base_block_hash_map,
                                                    it.base_block.hash_strong,
                                                    it.base_block.offset)
           /\ accepted' = Append(accepted, it.base_block)
    /\ UNCHANGED cliVars
    /\ UNCHANGED <<pc, base_data, other_data, block_size, other_blocks, weak_hash_set,
                   other_block_hash_map, patch_commands, patch, result>>

\* compute_diff, lines 107-112 and 119-122: no match, the window slides
ScanSlide ==
    /\ UNCHANGED hashVars
    /\ pc = "scan"
    /\ ScanIter.kind \in {"slide", "panic"}
    /\ LET it == ScanIter
       IN  IF it.kind = "panic" \/ window_begin >= Len(base_data)
           THEN /\ pc' = "panic"
                /\ UNCHANGED <<rolling_hash, window_begin, window_end>>
           ELSE /\ rolling_hash' = RollingHash_sub(it.h, base_data[window_begin + 1])
                /\ window_begin' = window_begin + 1
                /\ window_end' = it.wend
                /\ pc' = pc
    /\ UNCHANGED cliVars
    /\ UNCHANGED <<base_data, other_data, block_size, other_blocks, weak_hash_set,
                   other_block_hash_map, base_block_hash_map, accepted,
                   patch_commands, patch, result>>

\* compute_diff, lines 125-144
EmitCommands ==
    /\ UNCHANGED hashVars
    /\ pc = "emit"
    /\ patch_commands' = EmitCmds(other_blocks, base_block_hash_map)
    /\ pc' = "build"
    /\ UNCHANGED cliVars
    /\ UNCHANGED <<base_data, other_data, block_size, other_blocks, weak_hash_set,
                   other_block_hash_map, base_block_hash_map, rolling_hash,
                   window_begin, window_end, accepted, patch, result>>

\* build_patch(&b, &patch_commands)
BuildPatch ==
    /\ UNCHANGED hashVars
    /\ pc = "build"
    /\ step \in {"test", "diff_build"}
    /\ step = "test" => FALSE \in is_synchronized(patch_commands)
    /\ LET r == build_patch(other_data, patch_commands)
       IN  IF r.panic
           THEN pc' = "panic" /\ UNCHANGED patch
           ELSE pc' = "apply" /\ patch' = r.patch
    /\ UNCHANGED cliVars
    /\ UNCHANGED <<base_data, other_data, block_size, other_blocks, weak_hash_set,
                   other_block_hash_map, base_block_hash_map, rolling_hash,
                   window_begin, window_end, accepted, patch_commands, result>>

\* do_test_patch, lines 7-8 and 13-17: when is_synchronized() holds neither
\* build_patch nor apply_patch is called and c is a; the assertion that follows
\* compares b with c
TestSynchronized ==
    /\ UNCHANGED hashVars
    /\ pc = "build"
    /\ step = "test"
    /\ TRUE \in is_synchronized(patch_commands)
    /\ result' = base_data
    /\ pc' = IF base_data = other_data THEN "synchronized" ELSE "assert_failed"
    /\ UNCHANGED cliVars
    /\ UNCHANGED <<base_data, other_data, block_size, other_blocks, weak_hash_set,
                   other_block_hash_map, base_block_hash_map, rolling_hash,
                   window_begin, window_end, accepted, patch_commands, patch>>

\* apply_patch(&a, &patch)
ApplyPatch ==
    /\ UNCHANGED hashVars
    /\ pc = "apply"
    /\ LET r == apply_patch(base_data, patch)
       IN  IF r.panic
           THEN pc' = "panic" /\ UNCHANGED <<result, log>>
           ELSE pc' = "done" /\ result' = r.result /\ log' = Append(log, "apply")
    /\ UNCHANGED <<step, args, fs, container, outcome, exit_code, written>>
    /\ UNCHANGED <<base_data, other_data, block_size, other_blocks, weak_hash_set,
                   other_block_hash_map, base_block_hash_map, rolling_hash,
                   window_begin, window_end, accepted, patch_commands, patch>>

Next ==
    \/ ComputeBlocks
    \/ DiffSetup
    \/ ScanBreak
    \/ ScanMatch
    \/ ScanSlide
    \/ EmitCommands
    \/ TestSynchronized
    \/ BuildPatch
    \/ ApplyPatch

Spec == Init /\ [][Next]_vars

\* ---- the command line driver of main.rs -----------------------------------

\* bound of the files of the command line runs
CliMaxLen == 2

CliBytes == {97, 98}
CliInputs == UNION {[1..n -> CliBytes] : n \in 0..CliMaxLen}
CliFiles == {Unreadable} \cup {Readable(b) : b \in CliInputs}

\* the values of a flag: absent, not an integer, or one of the integers
FlagValues(ints) ==
    {<<>>, <<[int |-> FALSE, value |-> 0]>>} \cup {<<[int |-> TRUE, value |-> v]>> : v \in ints}

CopyCmd(source, target, size) == [source |-> source, target |-> target, size |-> size]

\* patches a patch file may hold: well formed ones and ones whose commands
\* leave BASE, the payload or the result
CliPatches ==
    { [data |-> <<>>, base |-> <<>>, other |-> <<>>, other_size |-> 0],
      [data |-> <<98>>, base |-> <<>>, other |-> <<CopyCmd(0, 0, 1)>>, other_size |-> 1],
      [data |-> <<>>, base |-> <<CopyCmd(0, 0, 1)>>, other |-> <<>>, other_size |-> 1],
      [data |-> <<98>>, base |-> <<CopyCmd(0, 0, 1)>>, other |-> <<CopyCmd(0, 1, 1)>>,
       other_size |-> 2],
      [data |-> <<>>, base |-> <<CopyCmd(1, 0, 1)>>, other |-> <<>>, other_size |-> 1],
      [data |-> <<98>>, base |-> <<>>, other |-> <<CopyCmd(0, 1, 1)>>, other_size |-> 1] }

CliContainers ==
    [id : {PATCH_FILE_ID, "?patchy?"}, version : {PATCH_FILE_VERSION, 2},
     base_hash : {compute_hash_strong(b) : b \in CliInputs},
     other_hash : {compute_hash_strong(b) : b \in CliInputs},
     patch : CliPatches]

CliPatchFiles ==
    {UnreadablePatch, Readable(<<>>), Readable(Raw),
     Readable(compress(Raw, DEFAULT_COMPRESSION_LEVEL))}
        \cup {Readable(compress(serialize(c), DEFAULT_COMPRESSION_LEVEL)) : c \in CliContainers}

CliConfigs ==
    {[args |-> [NoArgs EXCEPT !.cmd = "hash"],
      fs   |-> [NoFiles EXCEPT !.base = f]] : f \in CliFiles}
    \cup
    {[args |-> [NoArgs EXCEPT !.cmd = "diff", !.block = c[1], !.level = c[2], !.out = c[3]],
      fs   |-> [NoFiles EXCEPT !.base = c[4], !.other = c[5]]] :
        c \in FlagValues({5, 6, 30}) \X FlagValues({0, 15}) \X BOOLEAN \X CliFiles \X CliFiles}
    \cup
    {[args |-> [NoArgs EXCEPT !.cmd = "patch", !.out = c[1]],
      fs   |-> [NoFiles EXCEPT !.base = c[2], !.patch = c[3]]] :
        c \in BOOLEAN \X CliFiles \X CliPatchFiles}

InitCli ==
    /\ pc = "idle"
    /\ base_data = <<>>
    /\ other_data = <<>>
    /\ block_size = shl1(DEFAULT_BLOCK_SIZE_LOG2)
    /\ other_blocks = <<>>
    /\ weak_hash_set = {}
    /\ other_block_hash_map = <<>>
    /\ base_block_hash_map = <<>>
    /\ rolling_hash = RollingHash_new
    /\ window_begin = 0
    /\ window_end = 0
    /\ accepted = <<>>
    /\ patch_commands = NoCommands
    /\ patch = NoPatch
    /\ result = <<>>
    /\ step = "dispatch"
    /\ \E c \in CliConfigs : args = c.args /\ fs = c.fs
    /\ container = NoContainer
    /\ outcome = "running"
    /\ exit_code = -1
    /\ written = <<>>
    /\ log = <<>>
    /\ HashIdle

\* dispatch_command returns r to main
Return(r) == outcome' = r /\ step' = "main" /\ exit_code' = exit_code

\* a failed assertion or slice index: the process panics; the Rust runtime
\* ends a panicking process with exit code 101
Panic == outcome' = "panic" /\ step' = "exit" /\ exit_code' = 101

\* File::create(name) and write_all(bytes): what the file system may do
WriteFile(bytes) ==
    \E io \in {"ok", "create_fails", "write_fails"} :
        /\ written' = IF io = "create_fails" THEN written
                      ELSE <<[complete |-> io = "ok", bytes |-> bytes]>>
        /\ log' = IF io = "create_fails" THEN log ELSE Append(log, "write")
        /\ Return(IF io = "ok" THEN "Ok" ELSE "Err")

\* dispatch_command, lines 253-256, and hash_file
HashFile ==
    /\ UNCHANGED hashVars
    /\ step = "dispatch"
    /\ args.cmd = "hash"
    /\ Return(IF mmap(fs.base).ok THEN "Ok" ELSE "Err")
    /\ UNCHANGED <<coreVars, args, fs, container, written, log>>

\* dispatch_command, lines 263-286: the flags of diff
DispatchDiff ==
    /\ UNCHANGED hashVars
    /\ step = "dispatch"
    /\ args.cmd = "diff"
    /\ LET b == IF args.block = <<>> THEN [ok |-> TRUE, value |-> DEFAULT_BLOCK_SIZE_LOG2]
                ELSE parse_i32(args.block[1])
           l == IF args.level = <<>> THEN [ok |-> TRUE, value |-> DEFAULT_COMPRESSION_LEVEL]
                ELSE parse_i32(args.level[1])
       IN  IF ~b.ok \/ ~l.ok
           THEN Return("Err") /\ UNCHANGED <<block_size, args>>
           ELSE /\ block_size' = IF args.block = <<>> THEN shl1(DEFAULT_BLOCK_SIZE_LOG2)
                                 ELSE shl1(clamp_parameter(b.value, BLOCK_SIZE_BOUNDS_LOG2))
                /\ args' = [args EXCEPT !.compression_level =
                               IF args.level = <<>> THEN DEFAULT_COMPRESSION_LEVEL
                               ELSE clamp_parameter(l.value, COMPRESSION_LEVEL_BOUNDS)]
                /\ step' = "diff_files"
                /\ UNCHANGED <<outcome, exit_code>>
    /\ UNCHANGED <<pc, base_data, other_data, other_blocks, weak_hash_set,
                   other_block_hash_map, base_block_hash_map, rolling_hash,
                   window_begin, window_end, accepted, patch_commands, patch, result>>
    /\ UNCHANGED <<fs, container, written, log>>

\* diff_files, lines 108-135: the two inputs are opened and mapped
DiffOpen ==
    /\ UNCHANGED hashVars
    /\ step = "diff_files"
    /\ IF ~mmap(fs.base).ok \/ ~mmap(fs.other).ok
       THEN Return("Err") /\ UNCHANGED <<pc, base_data, other_data>>
       ELSE /\ base_data' = mmap(fs.base).bytes
            /\ other_data' = mmap(fs.other).bytes
            /\ pc' = "blocks"
            /\ step' = "diff_core"
            /\ UNCHANGED <<outcome, exit_code>>
    /\ UNCHANGED <<block_size, other_blocks, weak_hash_set,
                   other_block_hash_map, base_block_hash_map, rolling_hash,
                   window_begin, window_end, accepted, patch_commands, patch, result>>
    /\ UNCHANGED <<args, fs, container, written, log>>

\* diff_files, lines 140-143
DiffSynchronized ==
    /\ UNCHANGED hashVars
    /\ step = "diff_core"
    /\ pc = "build"
    /\ \E sync \in is_synchronized(patch_commands) :
           IF sync THEN Return("Ok")
           ELSE step' = "diff_build" /\ UNCHANGED <<outcome, exit_code>>
    /\ UNCHANGED <<coreVars, args, fs, container, written, log>>

\* diff_files, lines 161-168: the patch just built is verified
DiffVerify ==
    /\ UNCHANGED hashVars
    /\ step = "diff_build"
    /\ pc = "done"
    /\ LET other_hash        == compute_hash_strong(other_data)
           patched_base_hash == compute_hash_strong(result)
       IN  IF Len(result) # Len(other_data) \/ other_hash # patched_base_hash
           THEN Panic /\ UNCHANGED log
           ELSE /\ step' = "diff_write"
                /\ log' = Append(log, "other_hash")
                /\ UNCHANGED <<outcome, exit_code>>
    /\ UNCHANGED <<coreVars, args, fs, container, written>>

\* diff_files, lines 170-196: the patch is serialized, compressed and written
DiffWrite ==
    /\ UNCHANGED hashVars
    /\ step = "diff_write"
    /\ LET patch_with_header == [id         |-> PATCH_FILE_ID,
                                 version    |-> PATCH_FILE_VERSION,
                                 base_hash  |-> compute_hash_strong(base_data),
                                 other_hash |-> compute_hash_strong(other_data),
                                 patch      |-> patch]
           patch_compressed  == compress(serialize(patch_with_header),
                                         args.compression_level)
       IN  IF args.out
           THEN WriteFile(patch_compressed)
           ELSE Return("Ok") /\ UNCHANGED <<written, log>>
    /\ UNCHANGED <<coreVars, args, fs, container>>

\* dispatch_command, lines 257-262, and patch_file, lines 204-217
PatchOpen ==
    /\ UNCHANGED hashVars
    /\ step = "dispatch"
    /\ args.cmd = "patch"
    /\ IF ~mmap(fs.base).ok \/ ~mmap(fs.patch).ok
       THEN Return("Err") /\ UNCHANGED container
       ELSE LET patch_decompressed == decompress(mmap(fs.patch).bytes)
            IN  IF ~patch_decompressed.ok
                THEN Return("Err") /\ UNCHANGED container
                ELSE LET patch_with_header == deserialize(patch_decompressed.value)
                     IN  IF ~patch_with_header.ok
                         THEN Return("Err") /\ UNCHANGED container
                         ELSE /\ container' = patch_with_header.value
                              /\ step' = "patch_header"
                              /\ UNCHANGED <<outcome, exit_code>>
    /\ UNCHANGED <<coreVars, args, fs, written, log>>

\* patch_file, lines 218-219
PatchCheckHeader ==
    /\ UNCHANGED hashVars
    /\ step = "patch_header"
    /\ IF container.id # PATCH_FILE_ID
       THEN Panic /\ UNCHANGED log
       ELSE IF container.version # PATCH_FILE_VERSION
       THEN Panic /\ log' = Append(log, "id")
       ELSE /\ step' = "patch_base"
            /\ log' = log \o <<"id", "version">>
            /\ UNCHANGED <<outcome, exit_code>>
    /\ UNCHANGED <<coreVars, args, fs, container, written>>

\* patch_file, lines 221-226: BASE is verified, apply_patch is called
PatchVerifyBase ==
    /\ UNCHANGED hashVars
    /\ step = "patch_base"
    /\ LET base_hash == compute_hash_strong(fs.base.bytes)
       IN  IF base_hash # container.base_hash
           THEN Panic /\ UNCHANGED <<pc, base_data, patch, log>>
           ELSE /\ base_data' = fs.base.bytes
                /\ patch' = container.patch
                /\ pc' = "apply"
                /\ step' = "patch_apply"
                /\ log' = Append(log, "base_hash")
                /\ UNCHANGED <<outcome, exit_code>>
    /\ UNCHANGED <<other_data, block_size, other_blocks, weak_hash_set,
                   other_block_hash_map, base_block_hash_map, rolling_hash,
                   window_begin, window_end, accepted, patch_commands, result>>
    /\ UNCHANGED <<args, fs, container, written>>

\* a patch_file that does not compare the hash of the result
PatchVerifyResult_noCheck ==
    /\ UNCHANGED hashVars
    /\ step = "patch_apply"
    /\ pc = "done"
    /\ step' = "patch_write"
    /\ log' = Append(log, "other_hash")
    /\ UNCHANGED <<outcome, exit_code>>
    /\ UNCHANGED <<coreVars, args, fs, container, written>>

\* patch_file, lines 228-230: the result is verified
PatchVerifyResult ==
    /\ UNCHANGED hashVars
    /\ step = "patch_apply"
    /\ pc = "done"
    /\ LET patched_base_hash == compute_hash_strong(result)
       IN  IF patched_base_hash # container.other_hash
           THEN Panic /\ UNCHANGED log
           ELSE /\ step' = "patch_write"
                /\ log' = Append(log, "other_hash")
                /\ UNCHANGED <<outcome, exit_code>>
    /\ UNCHANGED <<coreVars, args, fs, container, written>>

\* patch_file, lines 232-238
PatchWrite ==
    /\ UNCHANGED hashVars
    /\ step = "patch_write"
    /\ IF args.out
       THEN WriteFile(result)
       ELSE Return("Ok") /\ UNCHANGED <<written, log>>
    /\ UNCHANGED <<coreVars, args, fs, container>>

\* a slice out of bounds in the core panics the process
CorePanic ==
    /\ UNCHANGED hashVars
    /\ pc = "panic"
    /\ step \in {"diff_core", "diff_build", "patch_apply"}
    /\ Panic
    /\ UNCHANGED <<coreVars, args, fs, container, written, log>>

\* main, line 341: Ok(_) => println!("Success"); main returns
MainOk ==
    /\ UNCHANGED hashVars
    /\ step = "main"
    /\ outcome = "Ok"
    /\ exit_code' = 0
    /\ step' = "exit"
    /\ UNCHANGED <<coreVars, args, fs, container, outcome, written, log>>

\* main, line 342: Err(e) => println!("Failed: {:?}", e); main returns
MainErr ==
    /\ UNCHANGED hashVars
    /\ step = "main"
    /\ outcome = "Err"
    /\ exit_code' = 0
    /\ step' = "exit"
    /\ UNCHANGED <<coreVars, args, fs, container, outcome, written, log>>

NextCli ==
    \/ HashFile
    \/ DispatchDiff
    \/ DiffOpen
    \/ ComputeBlocks
    \/ DiffSetup
    \/ ScanBreak
    \/ ScanMatch
    \/ ScanSlide
    \/ EmitCommands
    \/ DiffSynchronized
    \/ BuildPatch
    \/ ApplyPatch
    \/ DiffVerify
    \/ DiffWrite
    \/ PatchOpen
    \/ PatchCheckHeader
    \/ PatchVerifyBase
    \/ PatchVerifyResult
    \/ PatchWrite
    \/ CorePanic
    \/ MainOk
    \/ MainErr

SpecCli == InitCli /\ [][NextCli]_vars

\* ---- the pipeline on inputs whose weak hash wraps at 16 bits ---------------

\* bound of the ramp inputs
RampLen == 80

\* `let block_size = 32` of the ramp tests of test.rs
RampBlock == 32

\* the bytes first, first + stride, ... (as u8) of the ramp tests of test.rs
Ramp(first, stride, n) == [i \in 1..n |-> (first + (i - 1) * stride) % 256]

RampStarts == {0, 150, 200}

\* runs <<BASE, OTHER, B>>: the shifted ramp and the ramp with one byte changed
\* of test.rs at a smaller length; the accumulator b of a window of RampBlock
\* bytes wraps at 16 bits for the higher ramps
RampRuns ==
    {<<Ramp(f, 1, RampLen), Ramp(f + 1, 1, RampLen), RampBlock>> : f \in RampStarts}
    \cup
    {<<Ramp(f, 1, RampLen),
       [Ramp(f, 1, RampLen) EXCEPT ![RampBlock + 3] = (@ + 1) % 256],
       RampBlock>> : f \in RampStarts}

SyncRuns == {<<ab[1], ab[2], B>> : ab \in InputPairs, B \in 1..MaxBlock} \cup RampRuns

InitSync ==
    /\ \E run \in SyncRuns :
           base_data = run[1] /\ other_data = run[2] /\ block_size = run[3]
    /\ pc = "blocks"
    /\ other_blocks = <<>>
    /\ weak_hash_set = {}
    /\ other_block_hash_map = <<>>
    /\ base_block_hash_map = <<>>
    /\ rolling_hash = RollingHash_new
    /\ window_begin = 0
    /\ window_end = 0
    /\ accepted = <<>>
    /\ patch_commands = NoCommands
    /\ patch = NoPatch
    /\ result = <<>>
    /\ step = "test"
    /\ args = NoArgs
    /\ fs = NoFiles
    /\ container = NoContainer
    /\ outcome = "running"
    /\ exit_code = -1
    /\ written = <<>>
    /\ log = <<>>
    /\ HashIdle

SpecSync == InitSync /\ [][Next]_vars

\* ---- the RollingHash of hash.rs driven on its own ---------------------------

\* bound: the length of the long sequences
HashRun == 300

\* the bytes added before the sequence: the start state is the empty state or
\* a state reached by earlier adds
HashStarts == {<<>>, <<0>>, <<97, 98>>}

\* the sequences x1..xN: the small inputs, ramps, and HashRun bytes 224, whose
\* x + 31 is 255, for which both accumulators wrap at 16 bits
HashInputs ==
    Inputs \cup {Ramp(f, 1, HashRun) : f \in RampStarts} \cup {Ramp(224, 0, HashRun)}

InitHash ==
    /\ pc = "idle"
    /\ base_data = <<>>
    /\ other_data = <<>>
    /\ block_size = 1
    /\ other_blocks = <<>>
    /\ weak_hash_set = {}
    /\ other_block_hash_map = <<>>
    /\ base_block_hash_map = <<>>
    /\ rolling_hash = RollingHash_new
    /\ window_begin = 0
    /\ window_end = 0
    /\ accepted = <<>>
    /\ patch_commands = NoCommands
    /\ patch = NoPatch
    /\ result = <<>>
    /\ step = "idle"
    /\ args = NoArgs
    /\ fs = NoFiles
    /\ container = NoContainer
    /\ outcome = "running"
    /\ exit_code = -1
    /\ written = <<>>
    /\ log = <<>>
    /\ \E start \in HashStarts : rh_start = RollingHash_update(RollingHash_new, start)
    /\ rh = rh_start
    /\ rh_input \in HashInputs
    /\ rh_added = 0
    /\ rh_removed = 0

\* rh.add(x) for the next byte of the sequence
HashAdd ==
    /\ rh_added < Len(rh_input)
    /\ rh' = RollingHash_add(rh, rh_input[rh_added + 1])
    /\ rh_added' = rh_added + 1
    /\ UNCHANGED <<rh_start, rh_input, rh_removed>>
    /\ UNCHANGED <<coreVars, cliVars>>

\* rh.sub(x) for the bytes of the sequence, in the order they were added
HashSub ==
    /\ rh_added = Len(rh_input)
    /\ rh_removed < rh_added
    /\ rh' = RollingHash_sub(rh, rh_input[rh_removed + 1])
    /\ rh_removed' = rh_removed + 1
    /\ UNCHANGED <<rh_start, rh_input, rh_added>>
    /\ UNCHANGED <<coreVars, cliVars>>

NextHash ==
    \/ HashAdd
    \/ HashSub

SpecHash == InitHash /\ [][NextHash]_vars

\* ---- properties ------------------------------------------------------------

Built == pc \in {"apply", "done"}
Diffed == pc \in {"build", "synchronized", "assert_failed", "apply", "done"}

\* the content of block k (0-based) of data for block size B
BlockContent(data, k, B) == Slice(data, k * B, min((k + 1) * B, Len(data)))

\* the index range of the blocks of data for block size B (0-based)
BlockIndices(data, B) == 0..(((Len(data) + B - 1) \div B) - 1)

\* the contents of the blocks of OTHER
OtherContents == {BlockContent(other_data, k, block_size) :
                     k \in BlockIndices(other_data, block_size)}

\* the window the scan examines when it stands at offset o of BASE
WindowAt(o) == Slice(base_data, o, o + min(block_size, Len(base_data) - o))

\* cmd covers position j of its target / of its source
CoversTarget(cmd, j) == cmd.target <= j /\ j < cmd.target + cmd.size
CoversSource(cmd, j) == cmd.source <= j /\ j < cmd.source + cmd.size

\* C1: round trip: the pipeline never panics on a slice out of bounds, and the
\* result of apply_patch(BASE, build_patch(OTHER, compute_diff(...))) is OTHER
RoundTrip ==
    /\ pc # "panic"
    /\ pc = "done" => result = other_data

RoundTripWitness ==
    /\ pc = "done"
    /\ result = other_data
    /\ base_data # other_data
    /\ Len(patch.base) > 0
    /\ Len(patch.other) > 0
    /\ Len(patch.base) < Len(patch_commands.base)
    /\ \E i \in 1..Len(patch.base) : patch.base[i].source # patch.base[i].target

\* C2: tiling: in the Patch of build_patch no command has size 0, every
\* position of [0, |OTHER|) is covered by the target range of exactly one
\* command of base and other together, no target range leaves [0, |OTHER|),
\* and other_size = |OTHER|
Tiling ==
    Built =>
        LET cs == patch.base \o patch.other
        IN  /\ \A i \in 1..Len(cs) : cs[i].size # 0
            /\ \A i \in 1..Len(cs) : cs[i].target + cs[i].size <= Len(other_data)
            /\ \A j \in 0..(Len(other_data) - 1) :
                   Cardinality({i \in 1..Len(cs) : CoversTarget(cs[i], j)}) = 1
            /\ patch.other_size = Len(other_data)

TilingWitness ==
    /\ Built
    /\ Len(patch.base) > 0
    /\ Len(patch.other) > 0
    /\ Len(patch.base) + Len(patch.other)
           < Len(patch_commands.base) + Len(patch_commands.other)

\* C3: payload minimality: the payload length is the sum of the sizes of the
\* other commands, and every payload position is in the source range of exactly
\* one other command, none of which leaves the payload
PayloadMinimality ==
    Built =>
        /\ Len(patch.data) = compute_copy_size(patch.other)
        /\ \A i \in 1..Len(patch.other) :
               patch.other[i].source + patch.other[i].size <= Len(patch.data)
        /\ \A j \in 0..(Len(patch.data) - 1) :
               Cardinality({i \in 1..Len(patch.other) :
                               CoversSource(patch.other[i], j)}) = 1

PayloadMinimalityWitness ==
    /\ Built
    /\ Len(patch.other) >= 2
    /\ Len(patch.other) < Len(patch_commands.other)
    /\ \E i \in 1..Len(patch.other) : patch.other[i].source # patch.other[i].target

\* C4: equal inputs: when BASE = OTHER, compute_diff returns no other command,
\* build_patch an empty payload, and apply_patch returns BASE
EqualInputs ==
    base_data = other_data =>
        /\ pc # "panic"
        /\ Diffed => patch_commands.other = <<>>
        /\ Built => patch.data = <<>>
        /\ pc = "done" => result = base_data

EqualInputsWitness ==
    /\ pc = "done"
    /\ base_data = other_data
    /\ Len(base_data) > block_size
    /\ Len(base_data) % block_size # 0
    /\ patch_commands.other = <<>>
    /\ result = base_data

\* C5 as stated: every OTHER with |OTHER| <= B has exactly one block and its
\* Patch exactly one command
ShortInputsOriginal ==
    Len(other_data) <= block_size =>
        /\ pc # "blocks" => Len(other_blocks) = 1
        /\ Built => Len(patch.base) + Len(patch.other) = 1

\* C5: short inputs: every OTHER with 1 <= |OTHER| <= B has exactly one block
\* and its Patch exactly one command, a base command or an other command; an
\* empty OTHER has no block and its Patch no command
ShortInputs ==
    /\ (1 <= Len(other_data) /\ Len(other_data) <= block_size) =>
           /\ pc # "blocks" => Len(other_blocks) = 1
           /\ Built => Len(patch.base) + Len(patch.other) = 1
    /\ Len(other_data) = 0 =>
           /\ pc # "blocks" => Len(other_blocks) = 0
           /\ Built => Len(patch.base) + Len(patch.other) = 0

ShortInputsWitness ==
    /\ pc = "done"
    /\ Len(other_data) = block_size
    /\ block_size > 1
    /\ Len(base_data) > block_size
    /\ Len(patch.base) = 1
    /\ Len(patch.other) = 0

\* the offsets of BASE at which the greedy scan accepts a window: from offset o
\* the scan goes to the end of the window when the window is the content of an
\* OTHER block, to o + 1 when it is not
RECURSIVE GreedyAccepted(_)
GreedyAccepted(o) ==
    IF o >= Len(base_data) THEN {}
    ELSE IF WindowAt(o) \in OtherContents
         THEN {o} \cup GreedyAccepted(o + Len(WindowAt(o)))
         ELSE GreedyAccepted(o + 1)

\* the block of OTHER at target offset t got a base command
HasBaseCmd(t) == \E i \in 1..Len(patch_commands.base) : patch_commands.base[i].target = t
HasOtherCmd(t) == \E i \in 1..Len(patch_commands.other) : patch_commands.other[i].target = t

\* C6 as stated: every OTHER block whose content occurs as a contiguous run in
\* BASE gets a base command
UnalignedMatchingOriginal ==
    Diffed =>
        \A k \in BlockIndices(other_data, block_size) :
            LET c == BlockContent(other_data, k, block_size)
            IN  (\E o \in 0..(Len(base_data) - Len(c)) : Slice(base_data, o, o + Len(c)) = c)
                    => HasBaseCmd(k * block_size)

\* C6: unaligned matching: a base command copies from a BASE offset, aligned or
\* not, that holds the bytes of its block; an OTHER block gets a base command
\* exactly when its content is a window the greedy scan of BASE accepts, and
\* an other command otherwise, also when its content occurs in BASE at an
\* offset the scan jumped over or with a window of another length.  For
\* BASE = "abcd", OTHER = "abc", B = 2: "ab" is a base command (source 0) and
\* "c" an other command, the payload is "c".
UnalignedMatching ==
    /\ Diffed =>
           /\ \A i \in 1..Len(patch_commands.base) :
                  LET cmd == patch_commands.base[i]
                  IN  /\ cmd.source + cmd.size <= Len(base_data)
                      /\ Slice(base_data, cmd.source, cmd.source + cmd.size)
                             = Slice(other_data, cmd.target, cmd.target + cmd.size)
           /\ \A k \in BlockIndices(other_data, block_size) :
                  LET c == BlockContent(other_data, k, block_size)
                  IN  /\ HasBaseCmd(k * block_size)
                             <=> (\E o \in GreedyAccepted(0) : WindowAt(o) = c)
                      /\ HasOtherCmd(k * block_size) <=> ~HasBaseCmd(k * block_size)
    /\ (Built /\ base_data = <<97, 98, 99, 100>> /\ other_data = <<97, 98, 99>>
            /\ block_size = 2) =>
           /\ patch.base = <<[source |-> 0, target |-> 0, size |-> 2]>>
           /\ patch.other = <<[source |-> 0, target |-> 2, size |-> 1]>>
           /\ patch.data = <<99>>

UnalignedMatchingWitness ==
    /\ Diffed
    /\ \E i \in 1..Len(patch_commands.base) :
           /\ patch_commands.base[i].source % block_size # 0
           /\ patch_commands.base[i].size = block_size
    /\ \E k \in BlockIndices(other_data, block_size) :
           LET c == BlockContent(other_data, k, block_size)
           IN  /\ \E o \in 0..(Len(base_data) - Len(c)) : Slice(base_data, o, o + Len(c)) = c
               /\ HasOtherCmd(k * block_size)
    /\ block_size > 1

\* BASE and OTHER have the same length and differ in exactly one position
DiffPositions == {p \in 0..(Len(base_data) - 1) : base_data[p + 1] # other_data[p + 1]}
SingleByteChange == Len(base_data) = Len(other_data) /\ Cardinality(DiffPositions) = 1
ChangedBlock == (CHOOSE p \in DiffPositions : TRUE) \div block_size

\* C7 as stated: a single byte change gives exactly one other command, for the
\* block containing the change, and a payload of that block's size
SingleByteLocalityOriginal ==
    (SingleByteChange /\ Built) =>
        LET k == ChangedBlock
        IN  /\ Len(patch_commands.other) = 1
            /\ patch_commands.other[1].source = k * block_size
            /\ Len(patch.data) = Len(BlockContent(other_data, k, block_size))
            /\ Len(patch_commands.base) = Len(other_blocks) - 1

\* the changed block of OTHER is not the content of a block of BASE
ChangedBlockIsNew ==
    BlockContent(other_data, ChangedBlock, block_size)
        \notin {BlockContent(base_data, j, block_size) :
                   j \in BlockIndices(base_data, block_size)}

\* no window of BASE that starts strictly inside the changed block is the
\* content of a block of OTHER
NoMatchInsideChangedBlock ==
    \A o \in (ChangedBlock * block_size + 1)
                 ..(min((ChangedBlock + 1) * block_size, Len(base_data)) - 1) :
        WindowAt(o) \notin OtherContents

\* C7: single byte change locality: when |BASE| = |OTHER|, the two differ in
\* exactly one position p, the new content of the block containing p is not
\* the content of a block of BASE, and no window of BASE starting strictly
\* inside that block is the content of an OTHER block, then compute_diff
\* returns exactly one other command, its source is floor(p/B)*B, the payload
\* has that block's size and every other OTHER block is a base command
SingleByteLocality ==
    (SingleByteChange /\ ChangedBlockIsNew /\ NoMatchInsideChangedBlock /\ Built) =>
        LET k == ChangedBlock
        IN  /\ Len(patch_commands.other) = 1
            /\ patch_commands.other[1].source = k * block_size
            /\ patch_commands.other[1].target = k * block_size
            /\ Len(patch.data) = Len(BlockContent(other_data, k, block_size))
            /\ Len(patch_commands.base) = Len(other_blocks) - 1

SingleByteLocalityWitness ==
    /\ pc = "done"
    /\ SingleByteChange
    /\ ChangedBlockIsNew
    /\ NoMatchInsideChangedBlock
    /\ block_size > 1
    /\ Len(other_blocks) >= 2
    /\ ChangedBlock = 0
    /\ Len(patch_commands.other) = 1
    /\ Len(patch_commands.base) = Len(other_blocks) - 1

\* the offsets of the accepted windows / of the OTHER blocks with strong hash h
AcceptedOffsets(h) ==
    {accepted[i].offset : i \in {j \in 1..Len(accepted) : accepted[j].hash_strong = h}}
OtherOffsets(h) ==
    {other_blocks[i].offset :
        i \in {j \in 1..Len(other_blocks) : other_blocks[j].hash_strong = h}}
SetMin(S) == CHOOSE x \in S : \A y \in S : x <= y
Scanned == pc \in {"scan", "emit", "build", "synchronized", "assert_failed", "apply", "done"}

\* C10: first-match policy: M_base keeps the offset of the first (lowest
\* offset) accepted window with a strong hash, every base command has that
\* source, and M_other keeps the offset of the first OTHER block with a strong
\* hash
FirstMatchPolicy ==
    Scanned =>
        /\ \A h \in DOMAIN base_block_hash_map :
               base_block_hash_map[h] = SetMin(AcceptedOffsets(h))
        /\ \A h \in DOMAIN other_block_hash_map :
               other_block_hash_map[h] = SetMin(OtherOffsets(h))
        /\ Diffed =>
               \A i \in 1..Len(patch_commands.base) :
                   LET cmd == patch_commands.base[i]
                   IN  cmd.source = SetMin(AcceptedOffsets(
                           Slice(other_data, cmd.target, cmd.target + cmd.size)))

\* C8: exit codes: the process exits with code 0 exactly when the subcommand
\* succeeded; every failure ends with a nonzero exit code
ExitCodes ==
    step = "exit" => (exit_code = 0 <=> outcome = "Ok")

Wrote == written # <<>>

\* C9: verify before write: a file is written only after all verifications
\* passed, in order.  patch: the magic and the version were accepted, the hash
\* of BASE is base_hash, the patch was applied and the hash of the result is
\* other_hash; what is written is that result.  diff: apply_patch(BASE, patch)
\* was computed and its hash is the hash of OTHER.  A run that panics on a
\* mismatch has written nothing.
VerifyBeforeWrite ==
    /\ outcome = "panic" => ~Wrote
    /\ (Wrote /\ args.cmd = "patch") =>
           LET r == apply_patch(fs.base.bytes, container.patch)
           IN  /\ container.id = PATCH_FILE_ID
               /\ container.version = PATCH_FILE_VERSION
               /\ compute_hash_strong(fs.base.bytes) = container.base_hash
               /\ ~r.panic
               /\ result = r.result
               /\ compute_hash_strong(result) = container.other_hash
               /\ log = <<"id", "version", "base_hash", "apply", "other_hash", "write">>
               /\ written[1].complete => written[1].bytes = result
    /\ (Wrote /\ args.cmd = "diff") =>
           LET r == apply_patch(fs.base.bytes, patch)
           IN  /\ ~r.panic
               /\ result = r.result
               /\ compute_hash_strong(result) = compute_hash_strong(fs.other.bytes)
               /\ log = <<"apply", "other_hash", "write">>
    /\ Wrote => args.cmd \in {"patch", "diff"}

VerifyBeforeWritePatchWitness ==
    /\ Wrote
    /\ args.cmd = "patch"
    /\ written[1].complete
    /\ result # fs.base.bytes
    /\ Len(result) = 2
    /\ exit_code = 0

\* the accumulator b of a window without the wrap at 16 bits: the biased
\* bytes (x + 31 at 8 bits) weighted by their distance to the window's end
RECURSIVE SumWeighted(_)
SumWeighted(window) ==
    IF window = <<>> THEN 0
    ELSE Len(window) * ((Head(window) + 31) % 256) + SumWeighted(Tail(window))

\* C11: window/hash synchronisation: each time the scan calls find_base_block,
\* window_end - window_begin = rolling_hash.count() = min(B, |BASE| - window_begin),
\* window_end <= |BASE|, and rolling_hash.get() is the weak hash of
\* BASE[window_begin..window_end] computed from scratch; no index of the scan
\* is out of bounds
WindowSync ==
    pc = "scan" =>
        LET it == ScanIter
        IN  /\ it.kind # "panic"
            /\ it.kind \in {"match", "slide"} =>
                   /\ it.wend - window_begin = RollingHash_count(it.h)
                   /\ RollingHash_count(it.h) = min(block_size, Len(base_data) - window_begin)
                   /\ it.wend <= Len(base_data)
                   /\ RollingHash_get(it.h)
                          = compute_hash_weak(Slice(base_data, window_begin, it.wend))

\* a full window consulted after a jump and slides, whose accumulator b has
\* wrapped at 16 bits and which holds a byte whose x + 31 wraps at 8 bits
WindowSyncWitness ==
    /\ pc = "scan"
    /\ accepted # <<>>
    /\ RollingHash_count(rolling_hash) > 0
    /\ ScanIter.kind = "slide"
    /\ RollingHash_count(ScanIter.h) = block_size
    /\ block_size = RampBlock
    /\ SumWeighted(Slice(base_data, window_begin, ScanIter.wend)) >= 65536
    /\ \E i \in (window_begin + 1)..ScanIter.wend : base_data[i] >= 225

\* all bytes of the sequence were added and then removed
AddedAndRemoved == rh_added = Len(rh_input) /\ rh_removed = rh_added

\* C12 as stated: from any start state, after adding x1..xN and calling sub on
\* x1..xN in the same order, get() and count are what they were before
AddSubInverseOriginal ==
    AddedAndRemoved =>
        /\ RollingHash_get(rh) = RollingHash_get(rh_start)
        /\ RollingHash_count(rh) = RollingHash_count(rh_start)

\* C12: add/remove inverse: starting from the empty state, after adding x1..xN
\* and calling sub on x1..xN in the same order, get() returns the digest of the
\* empty state and count is 0 again, with all arithmetic wrapping.  From any
\* start state count never underflows and is back to its earlier value.
AddSubInverse ==
    /\ RollingHash_count(rh) = RollingHash_count(rh_start) + rh_added - rh_removed
    /\ (rh_start = RollingHash_new /\ AddedAndRemoved) =>
           /\ RollingHash_get(rh) = RollingHash_get(rh_start)
           /\ rh = RollingHash_new

\* a long sequence of bytes whose x + 31 is 255 was added to the empty state,
\* so that a and b wrapped at 16 bits, and removed again
AddSubInverseWitness ==
    /\ rh_start = RollingHash_new
    /\ AddedAndRemoved
    /\ Len(rh_input) * 255 >= 65536
    /\ \A i \in 1..Len(rh_input) : rh_input[i] = 224
    /\ rh = RollingHash_new

====
